---- MODULE Spec2Model ----
(***************************************************************************)
(* Model of the NTT copy worker (src/bin/ntt-copier.py) and of the         *)
(* strategy functions it calls (src/bin/ntt_copier_strategies.py).         *)
(*                                                                         *)
(* Several CopyWorker processes share one PostgreSQL database (tables      *)
(* inode, path, blobs) and one destination filesystem (by-hash store and   *)
(* archive tree).  run() mounts the medium, runs the startup sweep, and    *)
(* then calls process_batch() until no work is left.  process_batch()      *)
(* claims rows inside one transaction, does the filesystem work of every   *)
(* claimed inode, and applies all row updates in the same transaction.     *)
(***************************************************************************)
EXTENDS Integers, Sequences, FiniteSets, TLC

\* ---------------------------------------------------------------- bounds
NWorkers == 2          \* worker processes on the medium
NInodes == 2           \* inode rows of the medium (id = ino = 1..NInodes)
BatchSize == 2         \* --batch-size of every worker
MaxErrors == 5         \* inode.errors keeps at most this many entries
MaxFaults == 1         \* events from outside (I/O failure, rollback, kill, signal) per behaviour
MaxLimit == 1          \* largest --limit a worker is started with

\* ------------------------------------------------------- program constants
MAX_RETRIES == 5               \* mark_max_retries_exceeded: array_length(errors, 1) >= 5
max_no_work_attempts == 3      \* run(): exit after 3 consecutive empty batches

NULL == "NULL"
NOW == "NOW"
EMPTY_FILE_HASH == "e3b0c442"  \* SHA-256 of zero bytes (abbreviated)
MAX_RETRIES_EXCEEDED == "MAX_RETRIES_EXCEEDED"

Workers == {"w" \o ToString(n) : n \in 1..NWorkers}
Inodes == 1..NInodes
Paths == 1..(NInodes + 1)
\* path rows: path p < NInodes+1 belongs to inode p; the last path is a second
\* source hardlink of inode 1
PathIno(p) == IF p <= NInodes THEN p ELSE 1

Contents == {"A", "B", ""}
\* hash_file: BLAKE3 of the content, hex
hash_file(content) ==
    CASE content = "A" -> "b3_A"
      [] content = "B" -> "b3_B"
      [] OTHER -> "af1349b9"
BlobIds == {hash_file(c) : c \in Contents} \cup {EMPTY_FILE_HASH}

\* archive entries that are not hardlinks
IS_DIR == -1
IS_SYMLINK == -2

VARIABLES
    source,      \* the mounted medium: per inode its kind and content
    inode,       \* committed inode table
    path,        \* committed path table
    blobs,       \* committed blobs table: blobid of every row -> n_hardlinks
    pc,          \* per worker: position in run()
    batch,       \* per worker: rows claimed (and row-locked) by its open transaction
    pos,         \* per worker: index in batch of the next inode to process
    results,     \* per worker: results_by_inode
    consecutive_no_work,
    by_hash,     \* by-hash store: blobid -> filesystem inode number, 0 = no file
    archive,     \* archive tree: path -> filesystem inode number, 0 = no entry
    next_ino,    \* next unused filesystem inode number of the destination
    faults,      \* events from outside so far
    executed,    \* history, per worker: inode -> action whose filesystem step succeeded
    placed_by,   \* history: blobid -> inodes whose execute_copy_new_file_fs returned True
    links_created, \* history: blobid -> number of successful os.link calls
    dry_run,     \* --dry-run of the workers
    limit,       \* --limit of the workers
    processed_count, \* per worker: self.processed_count
    shutdown,    \* per worker: self.shutdown
    mounted_media, \* per worker: self._mounted_media
    mount_table, \* media that findmnt reports as mounted
    mount_calls, \* history, per worker and medium: what ensure_medium_mounted did
    input,       \* argument of the function applied on its own
    output       \* its result, NoOutput before the application

vars == <<source, inode, path, blobs, pc, batch, pos, results, consecutive_no_work,
          by_hash, archive, next_ino, faults, executed, placed_by, links_created,
          dry_run, limit, processed_count, shutdown, mounted_media, mount_table,
          mount_calls, input, output>>

\* the command line options, fixed for a behaviour
opts == <<dry_run, limit>>

db == <<inode, path, blobs>>

\* the state of the functions that are applied on their own
calls == <<mount_table, mount_calls, input, output>>
\* what the batch loop never touches
rest == <<mounted_media, calls>>
fs == <<by_hash, archive, next_ino, links_created, placed_by>>

\* what only the batch loop touches
loop_state == <<source, db, batch, pos, results, consecutive_no_work, fs, faults,
                executed, opts, processed_count, shutdown>>

\* ------------------------------------------------------------ helpers
Range(s) == {s[k] : k \in DOMAIN s}

RECURSIVE SortedSeq(_)
SortedSeq(S) ==
    IF S = {} THEN <<>>
    ELSE LET m == CHOOSE x \in S : \A y \in S : x <= y
         IN <<m>> \o SortedSeq(S \ {m})

FirstN(s, n) == IF Len(s) <= n THEN s ELSE SubSeq(s, 1, n)

\* ------------------------------------------------------------ media
\* An enumerated medium: the source objects and the rows enumeration made.
\* a source object: what lstat() finds at the path (kind, "none" = nothing),
\* what stat() finds after following symlinks (target), and the bytes read
Src(kind, content) ==
    [kind |-> kind, content |-> content,
     target |-> IF kind \in {"l", "none"} THEN "none" ELSE kind]

NewInodeRow(fs_type, size) ==
    [fs_type |-> fs_type, size |-> size, blobid |-> NULL, copied |-> FALSE,
     by_hash_created |-> FALSE, mime_type |-> NULL, processed_at |-> NULL,
     claimed_by |-> NULL, claimed_at |-> NULL, errors |-> <<>>]

NewPathRow(exclude_reason) == [blobid |-> NULL, exclude_reason |-> exclude_reason]

\* kinds of the first two inodes; both have content "A" when they are files;
\* further inodes are files with content "B"
MediumKinds ==
    { <<"f", "f">>,       \* two files with identical content
      <<"f", "d">>,       \* a file and a directory
      <<"f", "l">>,       \* a file and a symlink
      <<"f", "b">>,       \* a file and a block device
      <<"f", "none">>,    \* a file and a vanished source object
      <<"f", "e">> }      \* a file and an empty file

KindOf(m, i) == IF i > 2 \/ m[i] = "e" THEN "f" ELSE m[i]
ContentOf(m, i) == IF i > 2 THEN "B" ELSE IF m[i] = "e" THEN "" ELSE "A"

MediumSource(m) == [i \in Inodes |-> Src(KindOf(m, i), ContentOf(m, i))]

SizeOf(s) == IF s.kind = "f" /\ s.content = "" THEN 0 ELSE 1234

\* the medium as enumeration left it in the database: no row is done or claimed;
\* the path rows in `excluded` were marked (mark_path_excluded) before the run
InitMediumExcluding(m, excluded) ==
    /\ source = MediumSource(m)
    /\ inode = [i \in Inodes |->
                  NewInodeRow(IF source[i].kind = "none" THEN "f" ELSE source[i].kind,
                              SizeOf(source[i]))]
    /\ path = [p \in Paths |->
                 NewPathRow(IF p \in excluded THEN "file_not_found" ELSE NULL)]
    /\ blobs = [h \in {} |-> 0]
    /\ by_hash = [h \in BlobIds |-> 0]
    /\ archive = [p \in Paths |-> 0]
    /\ next_ino = 1
    /\ placed_by = [h \in BlobIds |-> {}]
    /\ links_created = [h \in BlobIds |-> 0]

\* a medium none of whose paths is excluded
InitMedium(m) == InitMediumExcluding(m, {})

\* ------------------------------------------------------------ mount manager
Media == {"m1", "m2"}
\* the medium the workers are started for: args.medium_hash
medium_hash == "m1"
mount_point(m) == "/mnt/ntt/" \o m

\* what one worker has done so far in its calls of ensure_medium_mounted for
\* one medium: calls made, calls that returned, findmnt runs, queries of the
\* medium table, runs of ntt-mount-helper, and the last value returned
NoCall == [calls |-> 0, ok |-> 0, findmnt |-> 0, query |-> 0, helper |-> 0,
           ret |-> NULL]

\* what the system answers during one call: whether the mount point is a
\* symlink, whether its target is mounted, whether the medium row has an
\* image_path, whether the image file exists, whether the helper succeeds
MountEnv == [symlink : BOOLEAN, target_mounted : BOOLEAN, image_path : BOOLEAN,
             image_exists : BOOLEAN, helper_ok : BOOLEAN]

\* ensure_medium_mounted without its cache check
cached_never(cache, m) == FALSE

\* the cache check of ensure_medium_mounted
cached(cache, m) == m \in cache

\* CopyWorker.ensure_medium_mounted(m) with cache self._mounted_media and mount
\* table `table`: whether it raised, the value returned, the cache and the
\* mount table afterwards, and the numbers of findmnt runs, medium queries and
\* helper runs of the call
ensure_medium_mounted(cache, m, table, env) ==
    LET R(raised, fm, q, h) ==
            [raised |-> raised,
             ret |-> IF raised THEN NULL ELSE mount_point(m),
             cache |-> IF raised THEN cache ELSE cache \cup {m},
             table |-> IF h = 1 /\ ~raised THEN table \cup {m} ELSE table,
             findmnt |-> fm, query |-> q, helper |-> h]
        probes == IF env.symlink THEN 2 ELSE 1
    IN  IF cached(cache, m) THEN
            [raised |-> FALSE, ret |-> mount_point(m), cache |-> cache,
             table |-> table, findmnt |-> 0, query |-> 0, helper |-> 0]
        ELSE IF m \in table THEN R(FALSE, 1, 0, 0)
        ELSE IF env.symlink /\ env.target_mounted THEN R(FALSE, 2, 0, 0)
        ELSE IF ~env.image_path THEN R(TRUE, probes, 1, 0)
        ELSE IF ~env.image_exists THEN R(TRUE, probes, 1, 0)
        ELSE IF env.helper_ok THEN R(FALSE, probes, 1, 1)
        ELSE R(TRUE, probes, 1, 1)

\* CopyWorker.__init__ of the workers in `on`; the others are never launched
InitWorkers(on) ==
    /\ pc = [w \in Workers |-> IF w \in on THEN "start" ELSE "off"]
    /\ batch = [w \in Workers |-> <<>>]
    /\ pos = [w \in Workers |-> 1]
    /\ results = [w \in Workers |-> <<>>]
    /\ consecutive_no_work = [w \in Workers |-> 0]
    /\ executed = [w \in Workers |-> <<>>]
    /\ processed_count = [w \in Workers |-> 0]
    /\ shutdown = [w \in Workers |-> FALSE]
    /\ mounted_media = [w \in Workers |-> {}]
    /\ faults = 0

\* the result of a function that is not applied yet
NoOutput == [by |-> NULL]

\* no function is applied on its own
NoCalls ==
    /\ mount_table = {}
    /\ mount_calls = [w \in Workers |-> [m \in Media |-> NoCall]]
    /\ input = NULL
    /\ output = NoOutput

\* every worker is started with the default options: --limit 0, no --dry-run
Init ==
    /\ \E m \in MediumKinds : InitMedium(m)
    /\ InitWorkers(Workers)
    /\ dry_run = FALSE
    /\ limit = 0
    /\ NoCalls

\* one worker is started, with any options; the other one is never launched
InitOptions ==
    /\ \E m \in MediumKinds : InitMedium(m)
    /\ InitWorkers({"w1"})
    /\ dry_run \in BOOLEAN
    /\ limit \in 0..MaxLimit
    /\ NoCalls

\* ------------------------------------------------------------ analysis
Plan(action, blobid, mime_type) ==
    [action |-> action, blobid |-> blobid, mime_type |-> mime_type]

\* raise AnalysisError(...)
AnalysisError == Plan("AnalysisError", NULL, NULL)

\* Path.is_symlink() and Path.exists() of a source object
is_symlink(s) == s.kind = "l"
exists(s) == s.target # "none"

\* strategies.detect_fs_type with the existence test first
detect_fs_type_exists_first(s) ==
    IF ~exists(s) THEN NULL
    ELSE IF is_symlink(s) THEN "l"
    ELSE IF s.target \in {"d", "f", "b", "c", "p", "s"} THEN s.target
    ELSE NULL

\* strategies.detect_fs_type: symlink first, then existence, then the kind
detect_fs_type(s) ==
    IF is_symlink(s) THEN "l"
    ELSE IF ~exists(s) THEN NULL
    ELSE IF s.target \in {"d", "f", "b", "c", "p", "s"} THEN s.target
    ELSE NULL

\* CopyWorker.check_blob_exists: SELECT 1 FROM blobs WHERE blobid = h
check_blob_exists(h) == h \in DOMAIN blobs

\* CopyWorker.analyze_file; io_ok = copy_file_to_temp and hash_file succeed
analyze_file(row, s, io_ok) ==
    IF row.size = 0
    THEN Plan("handle_empty_file", EMPTY_FILE_HASH, "application/x-empty")
    ELSE IF s.target # "f" \/ ~io_ok
    THEN AnalysisError
    ELSE IF check_blob_exists(hash_file(s.content))
    THEN Plan("link_existing_file", hash_file(s.content), "detected")
    ELSE Plan("copy_new_file", hash_file(s.content), "detected")

\* CopyWorker.analyze_symlink; readlink fails on anything that is not a symlink
analyze_symlink(s, io_ok) ==
    IF s.kind # "l" \/ ~io_ok
    THEN AnalysisError
    ELSE Plan("create_symlink", NULL, NULL)

\* analyze_inode probing the path whatever the row says
fs_type_probed(row, s) == detect_fs_type(s)

\* analyze_inode: inode_row.get('fs_type'), or detect_fs_type when it is absent
fs_type_of(row, s) ==
    IF row.fs_type # NULL THEN row.fs_type ELSE detect_fs_type(s)

\* CopyWorker.analyze_inode
analyze_inode(row, s, io_ok) ==
    LET fs_type == fs_type_of(row, s)
    IN  IF fs_type = NULL THEN Plan("skip", NULL, NULL)
        ELSE IF fs_type = "f" THEN analyze_file(row, s, io_ok)
        ELSE IF fs_type = "d" THEN Plan("create_directory", NULL, NULL)
        ELSE IF fs_type = "l" THEN analyze_symlink(s, io_ok)
        ELSE IF fs_type \in {"b", "c", "p", "s"} THEN Plan("record_special", NULL, NULL)
        ELSE Plan("skip", NULL, NULL)

\* ------------------------------------------------------------ execution
\* results_by_inode values: a blob_id string, an error dict, or None
ResStr(h) == [tag |-> "str", blobid |-> h, error_type |-> NULL]
ResDict(e) == [tag |-> "dict", blobid |-> NULL, error_type |-> e]
ResNone == [tag |-> "None", blobid |-> NULL, error_type |-> NULL]

\* shutil.move(temp_file, hash_path) onto a destination whose inode number is dst
\* (0 = no file).  os.rename() replaces an existing file by the moved one (a new
\* inode); when temp and by-hash are on different filesystems rename fails with
\* EXDEV and shutil copies the bytes over the existing file (same inode).  Neither
\* way raises FileExistsError.
shutil_move(dst, fresh, same_fs) ==
    [ino |-> IF dst = 0 \/ same_fs THEN fresh ELSE dst, FileExistsError |-> FALSE]

\* strategies.create_hardlinks_idempotent, phase 4: entries that already are the
\* by-hash inode are kept, all others are (unlinked and) linked
hardlinks_to_create_always(hash_ino, paths_to_link, arch) == paths_to_link

\* strategies.create_hardlinks_idempotent, phase 4: the paths that get os.link
hardlinks_to_create(hash_ino, paths_to_link, arch) ==
    {p \in paths_to_link : arch[p] # hash_ino}

create_hardlinks_idempotent(hash_ino, paths_to_link, arch) ==
    [archive |-> [p \in Paths |->
                    IF p \in hardlinks_to_create(hash_ino, paths_to_link, arch)
                    THEN hash_ino ELSE arch[p]],
     created_count |-> Cardinality(hardlinks_to_create(hash_ino, paths_to_link, arch))]

\* outcome of the filesystem work of one inode
Outcome(result, bh, arch, ni, blob, links, created, action) ==
    [result |-> result, by_hash |-> bh, archive |-> arch, next_ino |-> ni,
     blob |-> blob, links |-> links, by_hash_created |-> created, action |-> action]

NoEffect(result) == Outcome(result, by_hash, archive, next_ino, NULL, 0, FALSE, NULL)

\* CopyWorker.execute_copy_new_file_fs; fault = "link": os.link raises
execute_copy_new_file_fs(plan, paths, fault, same_fs) ==
    LET h == plan.blobid
        mv == shutil_move(by_hash[h], next_ino, same_fs)
        by_hash_created == ~mv.FileExistsError
        bh == IF mv.FileExistsError THEN by_hash ELSE [by_hash EXCEPT ![h] = mv.ino]
        ni == IF bh[h] = next_ino THEN next_ino + 1 ELSE next_ino
        ln == create_hardlinks_idempotent(bh[h], paths, archive)
    IN  IF fault = "link"
        THEN Outcome(ResNone, bh, archive, ni, NULL, 0, FALSE, NULL)
        ELSE Outcome(ResStr(h), bh, ln.archive, ni, h, ln.created_count,
                     by_hash_created, plan.action)

\* CopyWorker.execute_link_existing_file_fs; hash_path.stat() raises when the
\* by-hash file is missing
execute_link_existing_file_fs(plan, paths) ==
    LET h == plan.blobid
        ln == create_hardlinks_idempotent(by_hash[h], paths, archive)
    IN  IF by_hash[h] = 0
        THEN NoEffect(ResNone)
        ELSE Outcome(ResStr(h), by_hash, ln.archive, next_ino, h, ln.created_count,
                     FALSE, plan.action)

\* CopyWorker.execute_empty_file_fs: touch the by-hash file, then link
execute_empty_file_fs(plan, paths) ==
    LET h == plan.blobid
        bh == IF by_hash[h] = 0 THEN [by_hash EXCEPT ![h] = next_ino] ELSE by_hash
        ni == IF by_hash[h] = 0 THEN next_ino + 1 ELSE next_ino
        ln == create_hardlinks_idempotent(bh[h], paths, archive)
    IN  Outcome(ResStr(h), bh, ln.archive, ni, h, ln.created_count, FALSE, plan.action)

\* CopyWorker.execute_directory_fs / execute_symlink_fs: create what is missing
execute_entry_fs(plan, paths, entry) ==
    Outcome(ResNone, by_hash,
            [p \in Paths |-> IF p \in paths /\ archive[p] = 0 THEN entry ELSE archive[p]],
            next_ino, NULL, 0, FALSE, plan.action)

\* CopyWorker.process_inode_for_batch: analyse again, do the filesystem work,
\* return plan.get('blobid'); every exception is caught and gives None; with
\* --dry-run it returns None after the analysis
process_inode_for_batch(row, s, paths, fault, same_fs) ==
    LET plan == analyze_inode(row, s, TRUE)
    IN  IF plan.action \in {"AnalysisError", "skip"} \/ fault = "fs" \/ dry_run
        THEN NoEffect(ResNone)
        ELSE IF plan.action = "copy_new_file"
        THEN execute_copy_new_file_fs(plan, paths, fault, same_fs)
        ELSE IF plan.action = "link_existing_file"
        THEN execute_link_existing_file_fs(plan, paths)
        ELSE IF plan.action = "handle_empty_file"
        THEN execute_empty_file_fs(plan, paths)
        ELSE IF plan.action = "create_directory"
        THEN execute_entry_fs(plan, paths, IS_DIR)
        ELSE IF plan.action = "create_symlink"
        THEN execute_entry_fs(plan, paths, IS_SYMLINK)
        ELSE Outcome(ResNone, by_hash, archive, next_ino, NULL, 0, FALSE, plan.action)

\* process_batch, step 3, for one claimed inode: no paths -> None; analyze_inode
\* raises -> error dict; else the result of process_inode_for_batch
process_one(row, s, paths, fault, same_fs) ==
    IF paths = {}
    THEN NoEffect(ResNone)
    ELSE IF analyze_inode(row, s, fault # "analyze").action = "AnalysisError"
    THEN NoEffect(ResDict("AnalysisError"))
    ELSE process_inode_for_batch(row, s, paths, fault, same_fs)

\* which transient fault can hit the processing of a plan
Faults == {"none", "analyze", "fs", "link"}
FaultApplies(plan, fault) ==
    CASE fault = "none" -> TRUE
      [] fault = "analyze" -> plan.action \in {"copy_new_file", "link_existing_file",
                                               "create_symlink"}
      [] fault = "fs" -> plan.action \in {"copy_new_file", "link_existing_file",
                                          "handle_empty_file", "create_directory",
                                          "create_symlink"}
      [] OTHER -> plan.action = "copy_new_file"

\* ------------------------------------------------------------ claim layer
\* self.max_id: SELECT MAX(id) FROM inode WHERE medium_hash = ...
max_id == NInodes

\* row i is locked by the open transaction of another worker
LockedByOther(w, i) == \E v \in Workers \ {w} : i \in Range(batch[v])

\* the candidate CTE without SKIP LOCKED and without waiting for the lock
candidate_ignoring_locks(w, start_id) ==
    FirstN(SortedSeq({i \in Inodes :
                        /\ ~inode[i].copied
                        /\ inode[i].claimed_by = NULL
                        /\ i >= start_id}),
           BatchSize)

\* the candidate CTE without copied = false AND claimed_by IS NULL
candidate_of_any_status(w, start_id) ==
    FirstN(SortedSeq({i \in Inodes : i >= start_id /\ ~LockedByOther(w, i)}),
           BatchSize)

\* the candidate CTE: copied = false AND claimed_by IS NULL AND id >= start_id
\* ORDER BY id LIMIT batch_size FOR UPDATE SKIP LOCKED
candidate(w, start_id) ==
    FirstN(SortedSeq({i \in Inodes :
                        /\ ~inode[i].copied
                        /\ inode[i].claimed_by = NULL
                        /\ i >= start_id
                        /\ ~LockedByOther(w, i)}),
           BatchSize)

\* fetch_and_claim_batch without the sequential fallback
fetch_and_claim_batch_probes_only(w, s1, s2, s3) ==
    IF candidate(w, s1) # <<>> THEN candidate(w, s1)
    ELSE IF candidate(w, s2) # <<>> THEN candidate(w, s2)
    ELSE candidate(w, s3)

\* CopyWorker.fetch_and_claim_batch: three random probes, then the sequential scan
fetch_and_claim_batch(w, s1, s2, s3) ==
    IF candidate(w, s1) # <<>> THEN candidate(w, s1)
    ELSE IF candidate(w, s2) # <<>> THEN candidate(w, s2)
    ELSE IF candidate(w, s3) # <<>> THEN candidate(w, s3)
    ELSE candidate(w, 0)

\* the row version the claim UPDATE writes inside the transaction
claimed_row(w, i) == [inode[i] EXCEPT !.claimed_by = w, !.claimed_at = NOW]

\* fetch_and_claim_batch with a conn.commit() after the claim UPDATE
committed_after_claim_commit(w, claimed) ==
    [i \in Inodes |-> IF i \in Range(claimed) THEN claimed_row(w, i) ELSE inode[i]]

\* the committed inode table after fetch_and_claim_batch returned: the claim is
\* not committed ("Do NOT commit here - locks must be held until entire batch is
\* processed")
committed_after_claim(w, claimed) == inode

\* ------------------------------------------------------------ run()
\* run(): bookkeeping after process_batch() returned, count = self.processed_count
run_after_batch(w, batch_processed, count) ==
    IF batch_processed
    THEN /\ consecutive_no_work' = [consecutive_no_work EXCEPT ![w] = 0]
         /\ pc' = [pc EXCEPT ![w] =
                     IF limit > 0 /\ count >= limit THEN "done" ELSE "loop"]
    ELSE /\ consecutive_no_work' = [consecutive_no_work EXCEPT ![w] = @ + 1]
         /\ pc' = [pc EXCEPT ![w] =
                     IF consecutive_no_work[w] + 1 >= max_no_work_attempts
                     THEN "done" ELSE "loop"]

\* run(): an exception of ensure_medium_mounted is logged and swallowed
after_mount_swallowed(raised) == "sweep"

\* run(): an exception of ensure_medium_mounted is logged and raised again
after_mount(raised) == IF raised THEN "failed" ELSE "sweep"

\* run(): ensure_medium_mounted succeeds, or raises and the worker exits
run_mount(w) ==
    /\ pc[w] = "start"
    /\ \E table \in SUBSET {medium_hash}, env \in MountEnv :
         LET r == ensure_medium_mounted(mounted_media[w], medium_hash, table, env)
         IN  /\ pc' = [pc EXCEPT ![w] = after_mount(r.raised)]
             /\ mounted_media' = [mounted_media EXCEPT ![w] = r.cache]
    /\ UNCHANGED <<loop_state, calls>>

\* CopyWorker.mark_max_retries_exceeded: one UPDATE and a commit.  The UPDATE
\* waits for rows that another transaction holds locked.
\* the WHERE clause with array_length(errors, 1) > 5
swept_above_threshold(i) ==
    /\ ~inode[i].copied
    /\ inode[i].claimed_by = NULL
    /\ Len(inode[i].errors) > MAX_RETRIES

\* the WHERE clause of the sweep
swept(i) ==
    /\ ~inode[i].copied
    /\ inode[i].claimed_by = NULL
    /\ Len(inode[i].errors) >= MAX_RETRIES

sweep_row(row) == [row EXCEPT !.copied = TRUE, !.claimed_by = MAX_RETRIES_EXCEEDED]

mark_max_retries_exceeded(w) ==
    /\ pc[w] = "sweep"
    /\ \A i \in Inodes : swept(i) => ~LockedByOther(w, i)
    /\ inode' = [i \in Inodes |-> IF swept(i) THEN sweep_row(inode[i]) ELSE inode[i]]
    /\ pc' = [pc EXCEPT ![w] = "loop"]
    /\ UNCHANGED <<source, path, blobs, batch, pos, results, consecutive_no_work, fs,
                   faults, executed, opts, rest, processed_count, shutdown>>

\* ------------------------------------------------------------ process_batch()
\* the transaction ends (commit or rollback): its row locks are released and the
\* locals of process_batch go out of scope
end_batch(w) ==
    /\ batch' = [batch EXCEPT ![w] = <<>>]
    /\ pos' = [pos EXCEPT ![w] = 1]
    /\ results' = [results EXCEPT ![w] = <<>>]
    /\ executed' = [executed EXCEPT ![w] = <<>>]

\* run(): a loop that does not look at the shutdown flag (while True)
loop_condition_ignoring_flag(w) == TRUE

\* run(): while not self.shutdown
loop_condition(w) == ~shutdown[w]

\* run(): the loop condition fails, the worker logs its statistics and exits
run_exit(w) ==
    /\ pc[w] = "loop"
    /\ ~loop_condition(w)
    /\ pc' = [pc EXCEPT ![w] = "done"]
    /\ UNCHANGED <<source, db, batch, pos, results, consecutive_no_work, fs, faults,
                   executed, opts, rest, processed_count, shutdown>>

\* run(): the loop condition holds; process_batch() step 1: claim; no rows ->
\* return False
process_batch_claim(w) ==
    /\ pc[w] = "loop"
    /\ loop_condition(w)
    /\ \E claimed \in {fetch_and_claim_batch(w, s1, s2, s3) : s1, s2, s3 \in 0..max_id} :
             /\ inode' = committed_after_claim(w, claimed)
             /\ IF claimed = <<>>
                THEN /\ run_after_batch(w, FALSE, processed_count[w])
                     /\ UNCHANGED <<batch, pos, results, executed>>
                ELSE /\ batch' = [batch EXCEPT ![w] = claimed]
                     /\ pos' = [pos EXCEPT ![w] = 1]
                     /\ results' = [results EXCEPT ![w] = <<>>]
                     /\ executed' = [executed EXCEPT ![w] = <<>>]
                     /\ pc' = [pc EXCEPT ![w] = "batch"]
                     /\ UNCHANGED consecutive_no_work
    /\ UNCHANGED <<source, path, blobs, fs, faults, opts, rest, processed_count, shutdown>>

\* steps 2-3: the paths of the next claimed inode and its filesystem work
paths_of(i) == {p \in Paths : PathIno(p) = i /\ path[p].exclude_reason = NULL}

process_batch_inode(w) ==
    /\ pc[w] = "batch"
    /\ pos[w] <= Len(batch[w])
    /\ LET i == batch[w][pos[w]]
           row == claimed_row(w, i)
       IN  \E fault \in Faults, same_fs \in BOOLEAN :
             /\ fault # "none" =>
                  /\ faults < MaxFaults
                  /\ paths_of(i) # {}
                  /\ fault = "analyze" \/ ~dry_run
                  /\ FaultApplies(analyze_inode(row, source[i], TRUE), fault)
             /\ faults' = IF fault = "none" THEN faults ELSE faults + 1
             /\ LET out == process_one(row, source[i], paths_of(i), fault, same_fs)
                IN  /\ results' = [results EXCEPT ![w] = (i :> out.result) @@ @]
                    /\ by_hash' = out.by_hash
                    /\ archive' = out.archive
                    /\ next_ino' = out.next_ino
                    /\ executed' = IF out.action = NULL THEN executed
                                   ELSE [executed EXCEPT ![w] = (i :> out.action) @@ @]
                    /\ placed_by' = IF out.by_hash_created
                                    THEN [placed_by EXCEPT ![out.blob] = @ \cup {i}]
                                    ELSE placed_by
                    /\ links_created' = IF out.blob = NULL THEN links_created
                                        ELSE [links_created EXCEPT ![out.blob] =
                                                @ + out.links]
    /\ pos' = [pos EXCEPT ![w] = @ + 1]
    /\ UNCHANGED <<source, db, pc, batch, consecutive_no_work, opts, rest, processed_count,
                   shutdown>>

\* steps 4-6: build the update arrays, run the three UPDATEs, commit
success_ids(w) == {i \in Range(batch[w]) : results[w][i].tag = "str"}

\* failed_inodes without the final else branch ("No result returned")
failed_inodes_dict_only(w) == {i \in Range(batch[w]) : results[w][i].tag = "dict"}

failed_inodes(w) == Range(batch[w]) \ success_ids(w)

error_entry(result) ==
    IF result.tag = "dict" THEN result.error_type ELSE "UnknownError"

\* UPDATE inode SET copied = true, blobid = updates.blob_id
update_success(row, result) == [row EXCEPT !.copied = TRUE, !.blobid = result.blobid]

\* array_append(errors, entry); the model keeps the first MaxErrors entries
array_append(errors, entry) ==
    IF Len(errors) < MaxErrors THEN Append(errors, entry) ELSE errors

\* UPDATE inode SET claimed_by = NULL, claimed_at = NULL, errors = array_append(...)
update_failed(row, result) ==
    [row EXCEPT !.claimed_by = NULL, !.claimed_at = NULL,
                !.errors = array_append(@, error_entry(result))]

\* UPDATE path SET blobid = ... WHERE path.ino = updates.ino AND exclude_reason IS NULL
update_path(w, p) ==
    IF PathIno(p) \in success_ids(w) /\ path[p].exclude_reason = NULL
    THEN [path[p] EXCEPT !.blobid = results[w][PathIno(p)].blobid]
    ELSE path[p]

process_batch_commit(w) ==
    /\ pc[w] = "batch"
    /\ pos[w] > Len(batch[w])
    /\ path' = [p \in Paths |-> update_path(w, p)]
    /\ inode' = [i \in Inodes |->
                   IF i \in success_ids(w)
                   THEN update_success(claimed_row(w, i), results[w][i])
                   ELSE IF i \in failed_inodes(w)
                   THEN update_failed(claimed_row(w, i), results[w][i])
                   ELSE IF i \in Range(batch[w])
                   THEN claimed_row(w, i)
                   ELSE inode[i]]
    /\ processed_count' = [processed_count EXCEPT ![w] = @ + Cardinality(success_ids(w))]
    /\ end_batch(w)
    /\ run_after_batch(w, TRUE, processed_count'[w])
    /\ UNCHANGED <<source, blobs, fs, faults, opts, rest, shutdown>>

\* except (QueryCanceled, Exception): self.conn.rollback(); return False
process_batch_rollback(w) ==
    /\ pc[w] = "batch"
    /\ faults < MaxFaults
    /\ faults' = faults + 1
    /\ end_batch(w)
    /\ run_after_batch(w, FALSE, processed_count[w])
    /\ UNCHANGED <<source, db, fs, opts, rest, processed_count, shutdown>>

\* the worker process is killed; the server rolls its open transaction back
kill(w) ==
    /\ pc[w] \in {"sweep", "loop", "batch"}
    /\ faults < MaxFaults
    /\ faults' = faults + 1
    /\ end_batch(w)
    /\ pc' = [pc EXCEPT ![w] = "killed"]
    /\ consecutive_no_work' = [consecutive_no_work EXCEPT ![w] = 0]
    /\ UNCHANGED <<source, db, fs, opts, rest, processed_count, shutdown>>

\* a supervisor starts the worker again: a new process, a new CopyWorker
restart(w) ==
    /\ pc[w] = "killed"
    /\ pc' = [pc EXCEPT ![w] = "start"]
    /\ processed_count' = [processed_count EXCEPT ![w] = 0]
    /\ shutdown' = [shutdown EXCEPT ![w] = FALSE]
    /\ mounted_media' = [mounted_media EXCEPT ![w] = {}]
    /\ UNCHANGED <<source, db, batch, pos, results, consecutive_no_work, fs, faults,
                   executed, opts, calls>>

\* CopyWorker._signal_handler: SIGINT or SIGTERM arrives while the worker runs
signal_handler(w) ==
    /\ pc[w] \in {"start", "sweep", "loop", "batch"}
    /\ ~shutdown[w]
    /\ faults < MaxFaults
    /\ faults' = faults + 1
    /\ shutdown' = [shutdown EXCEPT ![w] = TRUE]
    /\ UNCHANGED <<source, db, pc, batch, pos, results, consecutive_no_work, fs,
                   executed, opts, rest, processed_count>>

Next ==
    \E w \in Workers :
        \/ run_mount(w)
        \/ mark_max_retries_exceeded(w)
        \/ process_batch_claim(w)
        \/ process_batch_inode(w)
        \/ process_batch_commit(w)
        \/ process_batch_rollback(w)
        \/ kill(w)
        \/ restart(w)
        \/ run_exit(w)
        \/ signal_handler(w)

Spec == Init /\ [][Next]_vars

SpecOptions == InitOptions /\ [][Next]_vars

\* the steps of run() itself: the interpreter keeps executing a running process
WorkerStep(w) ==
    \/ run_mount(w)
    \/ mark_max_retries_exceeded(w)
    \/ process_batch_claim(w)
    \/ process_batch_inode(w)
    \/ process_batch_commit(w)
    \/ run_exit(w)

\* a running worker keeps taking steps; the UPDATE of the startup sweep queues for
\* a locked row and gets it when the holder's transaction ends
Fairness ==
    \A w \in Workers :
        /\ WF_vars(WorkerStep(w))
        /\ SF_vars(mark_max_retries_exceeded(w))

SpecLive == InitOptions /\ [][Next]_vars /\ Fairness

\* ------------------------------------------------------------ mount calls
\* calls of ensure_medium_mounted that one worker makes for one medium
MaxCalls == 2

\* a worker that is built and has not gone past the mount step calls
\* ensure_medium_mounted(m); an exception ends the worker as in run()
mount_call(w, m) ==
    /\ pc[w] = "start"
    /\ mount_calls[w][m].calls < MaxCalls
    /\ \E env \in MountEnv :
         LET r == ensure_medium_mounted(mounted_media[w], m, mount_table, env)
         IN  /\ mounted_media' = [mounted_media EXCEPT ![w] = r.cache]
             /\ mount_table' = r.table
             /\ mount_calls' = [mount_calls EXCEPT ![w][m] =
                    [calls |-> @.calls + 1,
                     ok |-> @.ok + (IF r.raised THEN 0 ELSE 1),
                     findmnt |-> @.findmnt + r.findmnt,
                     query |-> @.query + r.query,
                     helper |-> @.helper + r.helper,
                     ret |-> r.ret]]
             /\ pc' = [pc EXCEPT ![w] = IF r.raised THEN after_mount(TRUE) ELSE @]
    /\ UNCHANGED <<loop_state, input, output>>

\* someone else mounts or unmounts the medium
mount_table_change(m) ==
    /\ mount_table' = IF m \in mount_table THEN mount_table \ {m}
                                            ELSE mount_table \cup {m}
    /\ UNCHANGED <<loop_state, pc, mounted_media, mount_calls, input, output>>

\* one worker is built; the other workers of the system show in the mount table
InitMount ==
    /\ InitMedium(<<"f", "f">>)
    /\ InitWorkers({"w1"})
    /\ dry_run = FALSE
    /\ limit = 0
    /\ mount_table \in SUBSET Media
    /\ mount_calls = [w \in Workers |-> [m \in Media |-> NoCall]]
    /\ input = NULL
    /\ output = NoOutput

NextMount ==
    \/ \E w \in Workers, m \in Media : mount_call(w, m)
    \/ \E m \in Media : mount_table_change(m)

SpecMount == InitMount /\ [][NextMount]_vars

\* ------------------------------------------------------------ path codec
\* A stored path is a sequence of bytes, a decoded path a sequence of code
\* points.  "CR" and "LF" are the control characters, "\\" the backslash,
\* "xFF" a byte that is no UTF-8, "udcff" the lone surrogate that
\* surrogateescape makes of it, "ufffd" the replacement character.
MaxPathLen == 3
PathBytes == {"a", "\\", "r", "n", "CR", "xFF"}
StoredPaths == UNION {[1..n -> PathBytes] : n \in 1..MaxPathLen}

\* bytes.decode('utf-8', errors='surrogateescape')
decode_surrogateescape(bytes) ==
    [k \in DOMAIN bytes |-> IF bytes[k] = "xFF" THEN "udcff" ELSE bytes[k]]

\* bytes.decode('utf-8', errors='replace')
decode_replace(bytes) ==
    [k \in DOMAIN bytes |-> IF bytes[k] = "xFF" THEN "ufffd" ELSE bytes[k]]

\* str.replace(<<"\\", letter>>, <<control>>): every occurrence, left to right
RECURSIVE str_replace(_, _, _)
str_replace(s, letter, control) ==
    IF Len(s) < 2 THEN s
    ELSE IF s[1] = "\\" /\ s[2] = letter
         THEN <<control>> \o str_replace(SubSeq(s, 3, Len(s)), letter, control)
         ELSE <<s[1]>> \o str_replace(Tail(s), letter, control)

\* strategies.sanitize_path: the path handed to the syscalls on the source
sanitize_path(path_bytes) ==
    str_replace(str_replace(decode_surrogateescape(path_bytes), "r", "CR"), "n", "LF")

\* execute_directory_fs, execute_symlink_fs: the name of the archive entry
archive_path_str(path_bytes) == decode_replace(path_bytes)

\* create_hardlinks_idempotent, phase 1: the name of the archive entry a file
\* path is hardlinked at (below archive_root, as all archive names here)
sanitized_paths(path_bytes) ==
    str_replace(str_replace(decode_surrogateescape(path_bytes), "r", "CR"), "n", "LF")

\* os.fsencode: str.encode('utf-8', errors='surrogateescape')
RECURSIVE fsencode(_)
fsencode(s) ==
    IF s = <<>> THEN <<>>
    ELSE (CASE s[1] = "udcff" -> <<"xFF">>
            [] s[1] = "ufffd" -> <<"xEF", "xBF", "xBD">>
            [] OTHER -> <<s[1]>>) \o fsencode(Tail(s))

\* the functions applied on their own leave the workers as they were built
NoWorkerStep == UNCHANGED <<loop_state, pc, mounted_media, mount_table, mount_calls>>

InitCalls ==
    /\ InitMedium(<<"f", "f">>)
    /\ InitWorkers(Workers)
    /\ dry_run = FALSE
    /\ limit = 0
    /\ mount_table = {}
    /\ mount_calls = [w \in Workers |-> [m \in Media |-> NoCall]]
    /\ output = NoOutput

\* analyze_inode, create_hardlinks_idempotent: the stored path is decoded for
\* the syscalls
decode_for_syscall ==
    /\ output = NoOutput
    /\ output' = [by |-> "sanitize_path", path |-> sanitize_path(input)]
    /\ UNCHANGED input
    /\ NoWorkerStep

\* execute_directory_fs, execute_symlink_fs: the stored path is decoded for the
\* archive entry
decode_for_archive ==
    /\ output = NoOutput
    /\ output' = [by |-> "execute_directory_fs", path |-> archive_path_str(input)]
    /\ UNCHANGED input
    /\ NoWorkerStep

\* create_hardlinks_idempotent: the stored path is decoded for the archive
\* entry of a file
decode_for_hardlink ==
    /\ output = NoOutput
    /\ output' = [by |-> "create_hardlinks_idempotent", path |-> sanitized_paths(input)]
    /\ UNCHANGED input
    /\ NoWorkerStep

InitCodec == InitCalls /\ input \in StoredPaths
NextCodec == decode_for_syscall \/ decode_for_archive \/ decode_for_hardlink
SpecCodec == InitCodec /\ [][NextCodec]_vars

\* ------------------------------------------------------------ error classifier
ENOENT == 2
EIO == 5
EACCES == 13
ENAMETOOLONG == 36

ErrorClasses == {"path_error", "io_error", "permission_error", "hash_error", "unknown"}

\* what the message of an exception says
Messages == {"No such file or directory", "File name too long",
             "Input/output error", "attempt to access beyond end of device",
             "request beyond EOF", "Permission denied",
             "BLAKE3 hash computation failed", "Some unexpected error"}

\* the exception class Python gives an OSError built with an errno
oserror_type(errno) ==
    CASE errno = ENOENT -> "FileNotFoundError"
      [] errno = EACCES -> "PermissionError"
      [] OTHER -> "OSError"

\* the exceptions a worker can meet: built from a message alone (errno 0), or
\* an OSError built with an errno
Exceptions ==
    [type : {"FileNotFoundError", "PermissionError", "OSError", "Exception"},
     errno : {0}, msg : Messages]
    \cup {[type |-> oserror_type(n), errno |-> n, msg |-> m] :
             n \in {ENOENT, EIO, EACCES, ENAMETOOLONG}, m \in Messages}

\* DiagnosticService.classify_error, without the beyond-EOF pattern
classify_error_short(exc) ==
    IF exc.type = "PermissionError" \/ exc.errno = EACCES THEN "permission_error"
    ELSE IF \/ exc.type = "FileNotFoundError"
            \/ exc.errno \in {ENOENT, ENAMETOOLONG}
            \/ exc.msg \in {"No such file or directory", "File name too long"}
         THEN "path_error"
    ELSE IF \/ exc.errno = EIO
            \/ exc.msg \in {"Input/output error",
                            "attempt to access beyond end of device"}
         THEN "io_error"
    ELSE IF exc.msg = "BLAKE3 hash computation failed" THEN "hash_error"
    ELSE "unknown"

\* DiagnosticService.classify_error
classify_error(exc) ==
    IF exc.type = "PermissionError" \/ exc.errno = EACCES THEN "permission_error"
    ELSE IF \/ exc.type = "FileNotFoundError"
            \/ exc.errno \in {ENOENT, ENAMETOOLONG}
            \/ exc.msg \in {"No such file or directory", "File name too long"}
         THEN "path_error"
    ELSE IF \/ exc.errno = EIO
            \/ exc.msg \in {"Input/output error",
                            "attempt to access beyond end of device",
                            "request beyond EOF"}
         THEN "io_error"
    ELSE IF exc.msg = "BLAKE3 hash computation failed" THEN "hash_error"
    ELSE "unknown"

\* DiagnosticService.determine_failure_status, with every OS error permanent
determine_failure_status_strict(exc) ==
    LET error_type == classify_error(exc)
    IN  <<IF error_type \in {"io_error", "permission_error"}
          THEN "failed_permanent" ELSE "failed_retryable", error_type>>

\* DiagnosticService.determine_failure_status
determine_failure_status(exc) ==
    LET error_type == classify_error(exc)
    IN  <<IF error_type = "io_error" THEN "failed_permanent" ELSE "failed_retryable",
          error_type>>

\* diag.classify_error(exc)
classify ==
    /\ output = NoOutput
    /\ output' = [by |-> "classify_error", result |-> classify_error(input)]
    /\ UNCHANGED input
    /\ NoWorkerStep

\* diag.determine_failure_status(exc)
determine ==
    /\ output = NoOutput
    /\ output' = [by |-> "determine_failure_status",
                  result |-> determine_failure_status(input)]
    /\ UNCHANGED input
    /\ NoWorkerStep

InitClassify == InitCalls /\ input \in Exceptions
NextClassify == classify \/ determine
SpecClassify == InitClassify /\ [][NextClassify]_vars

\* ------------------------------------------------------------ blobs upsert
\* largest n_hardlinks a blobs row is taken to
MaxHardlinks == 6

\* INSERT INTO blobs ... ON CONFLICT (blobid) DO UPDATE
\* SET n_hardlinks = EXCLUDED.n_hardlinks
upsert_blob_overwrite(tbl, h, num_links) ==
    [x \in DOMAIN tbl \cup {h} |-> IF x = h THEN num_links ELSE tbl[x]]

\* INSERT INTO blobs ... ON CONFLICT (blobid) DO UPDATE
\* SET n_hardlinks = blobs.n_hardlinks + EXCLUDED.n_hardlinks
upsert_blob(tbl, h, num_links) ==
    [x \in DOMAIN tbl \cup {h} |->
        IF x # h THEN tbl[x]
        ELSE IF h \in DOMAIN tbl THEN tbl[h] + num_links ELSE num_links]

\* execute_plan, step 2, for a file plan of inode i: update_db_for_file in one
\* transaction that commits (a transaction that fails changes nothing)
update_db_for_file(i, by_hash_created) ==
    LET plan == analyze_file(inode[i], source[i], TRUE)
        num_links == Cardinality(paths_of(i))
    IN  /\ source[i].kind = "f"
        /\ (IF plan.blobid \in DOMAIN blobs THEN blobs[plan.blobid] ELSE 0)
              + num_links <= MaxHardlinks
        /\ inode' = [inode EXCEPT ![i] =
                        [@ EXCEPT !.blobid = plan.blobid, !.copied = TRUE,
                                  !.by_hash_created = by_hash_created,
                                  !.mime_type = plan.mime_type,
                                  !.processed_at = NOW,
                                  !.claimed_by = NULL, !.claimed_at = NULL]]
        /\ path' = [p \in Paths |->
                       IF PathIno(p) = i THEN [path[p] EXCEPT !.blobid = plan.blobid]
                       ELSE path[p]]
        /\ blobs' = upsert_blob(blobs, plan.blobid, num_links)
        /\ UNCHANGED <<source, pc, batch, pos, results, consecutive_no_work, fs,
                       faults, executed, opts, processed_count, shutdown, rest>>

InitBlobs ==
    /\ \E m \in MediumKinds, excluded \in SUBSET Paths : InitMediumExcluding(m, excluded)
    /\ InitWorkers(Workers)
    /\ dry_run = FALSE
    /\ limit = 0
    /\ NoCalls

NextBlobs == \E i \in Inodes, by_hash_created \in BOOLEAN :
                 update_db_for_file(i, by_hash_created)

SpecBlobs == InitBlobs /\ [][NextBlobs]_vars

\* ------------------------------------------------------------ temp files
\* get_temp_path: files below 100 MiB go to the worker's tmpfs directory
RAM_LIMIT == 104857600
RAMDISK == "/tmp/ram"
NVME_TMP == "/data/fast/tmp"

\* file sizes on the two sides of the limit
TempSizes == {1234, RAM_LIMIT - 1, RAM_LIMIT}

\* no temp file
NoTemp == [dir |-> NULL, name |-> NULL, ino |-> 0, size |-> 0]

\* CopyWorker.get_temp_path of worker worker_id for an inode row: the directory
\* and the file name "<ino>.tmp", with the inode number and the size of the row
get_temp_path(worker_id, size, ino) ==
    [dir |-> IF size < RAM_LIMIT THEN RAMDISK \o "/" \o worker_id ELSE NVME_TMP,
     name |-> ToString(ino) \o ".tmp",
     ino |-> ino, size |-> size]

\* the temp file each worker is writing, by worker
temp_file_path == output.temp

\* analyze_file of worker w, started for input[w] (its --medium-hash), for a
\* claimed inode of that medium: copy_file_to_temp writes the temp file.  No
\* two workers hold a claim on the same inode of a medium.
analyze_file_temp(w, ino, size) ==
    /\ temp_file_path[w] = NoTemp
    /\ \A v \in Workers \ {w} :
          input[v] = input[w] => temp_file_path[v].ino # ino
    /\ output' = [output EXCEPT !.temp[w] = get_temp_path(w, size, ino)]
    /\ UNCHANGED input
    /\ NoWorkerStep

\* the temp file is moved into the by-hash store, or unlinked
temp_file_gone(w) ==
    /\ temp_file_path[w] # NoTemp
    /\ output' = [output EXCEPT !.temp[w] = NoTemp]
    /\ UNCHANGED input
    /\ NoWorkerStep

InitTemp ==
    /\ InitMedium(<<"f", "f">>)
    /\ InitWorkers(Workers)
    /\ dry_run = FALSE
    /\ limit = 0
    /\ mount_table = {}
    /\ mount_calls = [w \in Workers |-> [m \in Media |-> NoCall]]
    /\ input \in [Workers -> Media]
    /\ output = [by |-> "get_temp_path", temp |-> [w \in Workers |-> NoTemp]]

NextTemp ==
    \E w \in Workers :
        \/ \E ino \in Inodes, size \in TempSizes : analyze_file_temp(w, ino, size)
        \/ temp_file_gone(w)

SpecTemp == InitTemp /\ [][NextTemp]_vars

\* ------------------------------------------------------------ leaf directories
\* A directory path is a sequence of characters.  Paths are as Path.parent gives
\* them below the archive root "a": no slash at the end, no two slashes in a row.
MaxDirLen == 3
MaxDirs == 3
DirChars == {"a", "-", "/"}
ord(c) == CASE c = "-" -> 45 [] c = "/" -> 47 [] OTHER -> 97

DirPaths ==
    {d \in UNION {[1..n -> DirChars] : n \in 1..MaxDirLen} :
        /\ d[1] = "a"
        /\ d[Len(d)] # "/"
        /\ \A k \in 1..(Len(d) - 1) : ~(d[k] = "/" /\ d[k + 1] = "/")}

\* s < t as Python compares strings
RECURSIVE str_less(_, _)
str_less(s, t) ==
    IF t = <<>> THEN FALSE
    ELSE IF s = <<>> THEN TRUE
    ELSE IF s[1] # t[1] THEN ord(s[1]) < ord(t[1])
    ELSE str_less(Tail(s), Tail(t))

\* sorted(paths)
RECURSIVE sorted(_)
sorted(paths) ==
    IF paths = <<>> THEN <<>>
    ELSE LET k == CHOOSE k \in DOMAIN paths :
                    \A j \in DOMAIN paths : ~str_less(paths[j], paths[k])
         IN  <<paths[k]>> \o
             sorted([j \in 1..(Len(paths) - 1) |->
                        IF j < k THEN paths[j] ELSE paths[j + 1]])

\* str.startswith
startswith(s, prefix) ==
    Len(prefix) <= Len(s) /\ SubSeq(s, 1, Len(prefix)) = prefix

\* the inner loop of filter_longest_paths looking at the next path only
is_prefix_of_next(sorted_paths, i, j) ==
    /\ j <= Len(sorted_paths)
    /\ startswith(sorted_paths[j], sorted_paths[i] \o <<"/">>)

\* the inner loop of filter_longest_paths from index j on: is_prefix
RECURSIVE is_prefix(_, _, _)
is_prefix(sorted_paths, i, j) ==
    IF j > Len(sorted_paths) THEN FALSE
    ELSE IF ~startswith(sorted_paths[j], sorted_paths[i]) THEN FALSE
    ELSE IF startswith(sorted_paths[j], sorted_paths[i] \o <<"/">>) THEN TRUE
    ELSE is_prefix(sorted_paths, i, j + 1)

\* strategies.filter_longest_paths
filter_longest_paths(paths) ==
    LET sorted_paths == sorted(paths)
    IN  {sorted_paths[i] : i \in {k \in DOMAIN sorted_paths :
                                     ~is_prefix(sorted_paths, k, k + 1)}}

\* create_hardlinks_idempotent, phase 2: leaf_dirs = filter_longest_paths(parent_dirs)
filter_dirs ==
    /\ output = NoOutput
    /\ output' = [by |-> "filter_longest_paths", result |-> filter_longest_paths(input)]
    /\ UNCHANGED input
    /\ NoWorkerStep

InitDirs == InitCalls /\ input \in UNION {[1..n -> DirPaths] : n \in 0..MaxDirs}
NextDirs == filter_dirs
SpecDirs == InitDirs /\ [][NextDirs]_vars

\* ------------------------------------------------------------ hardlink fan-out
\* calls of create_hardlinks_idempotent in a row
MaxLinkCalls == 2

\* the blob whose by-hash file is linked
linked_blob == hash_file("A")

\* create_hardlinks_idempotent(hash_path, paths_to_link, archive_root) with
\* paths_to_link = input; the values returned are kept in output.returned
link_call ==
    LET ln == create_hardlinks_idempotent(by_hash[linked_blob], input, archive)
    IN  /\ Len(output.returned) < MaxLinkCalls
        /\ archive' = ln.archive
        /\ output' = [output EXCEPT !.returned = Append(@, ln.created_count)]
        /\ UNCHANGED <<source, db, pc, batch, pos, results, consecutive_no_work,
                       by_hash, next_ino, links_created, placed_by, faults, executed,
                       opts, processed_count, shutdown, mounted_media, mount_table,
                       mount_calls, input>>

\* the by-hash file exists; every archive path has no entry, is a hardlink of
\* the by-hash file or is a hardlink of a file that was the by-hash file before
InitLinks ==
    /\ source = MediumSource(<<"f", "f">>)
    /\ inode = [i \in Inodes |-> NewInodeRow("f", SizeOf(source[i]))]
    /\ path = [p \in Paths |-> NewPathRow(NULL)]
    /\ blobs = [h \in {} |-> 0]
    /\ by_hash = [h \in BlobIds |-> IF h = linked_blob THEN 2 ELSE 0]
    /\ archive \in [Paths -> 0..2]
    /\ next_ino = 3
    /\ placed_by = [h \in BlobIds |-> {}]
    /\ links_created = [h \in BlobIds |-> 0]
    /\ InitWorkers(Workers)
    /\ dry_run = FALSE
    /\ limit = 0
    /\ mount_table = {}
    /\ mount_calls = [w \in Workers |-> [m \in Media |-> NoCall]]
    /\ input \in SUBSET Paths
    /\ output = [by |-> "create_hardlinks_idempotent", returned |-> <<>>]

NextLinks == link_call
SpecLinks == InitLinks /\ [][NextLinks]_vars

\* ------------------------------------------------------------ analysis on its own
\* what can be found at a source path: a regular file (with or without
\* bytes), a directory, a device, a fifo, a socket, something of no known
\* type, nothing, or a symlink whose target is missing, a file or a directory
SourceObjects ==
    {Src(k, c) : k \in {"f"}, c \in {"A", ""}}
    \cup {Src(k, "A") : k \in {"d", "b", "c", "p", "s", "other", "none"}}
    \cup {[kind |-> "l", content |-> "A", target |-> t] : t \in {"none", "f", "d"}}

\* inode rows as enumeration can have left them: fs_type absent, one of the
\* seven letters, or a letter the copier does not know
RowTypes == {NULL, "f", "d", "l", "b", "c", "p", "s", "x"}
RowSizes == {0, 1234}

\* the work unit of analyze_inode: the row, what is at paths[0], and whether
\* reading it (copy, hash, readlink) succeeds
WorkUnits ==
    [row : {NewInodeRow(t, z) : t \in RowTypes, z \in RowSizes},
     s : SourceObjects, io_ok : BOOLEAN]

\* self.analyze_inode(work_unit)
analyze ==
    /\ output = NoOutput
    /\ output' = [by |-> "analyze_inode",
                  plan |-> analyze_inode(input.row, input.s, input.io_ok)]
    /\ UNCHANGED input
    /\ NoWorkerStep

\* strategies.detect_fs_type(source_path)
detect ==
    /\ output = NoOutput
    /\ output' = [by |-> "detect_fs_type", fs_type |-> detect_fs_type(input.s)]
    /\ UNCHANGED input
    /\ NoWorkerStep

\* the blobs table has a row for the digest of "A", or none
InitAnalyze ==
    /\ source = MediumSource(<<"f", "f">>)
    /\ inode = [i \in Inodes |-> NewInodeRow("f", SizeOf(source[i]))]
    /\ path = [p \in Paths |-> NewPathRow(NULL)]
    /\ blobs \in {[h \in {} |-> 0], [h \in {hash_file("A")} |-> 1]}
    /\ by_hash = [h \in BlobIds |-> 0]
    /\ archive = [p \in Paths |-> 0]
    /\ next_ino = 1
    /\ placed_by = [h \in BlobIds |-> {}]
    /\ links_created = [h \in BlobIds |-> 0]
    /\ InitWorkers(Workers)
    /\ dry_run = FALSE
    /\ limit = 0
    /\ mount_table = {}
    /\ mount_calls = [w \in Workers |-> [m \in Media |-> NoCall]]
    /\ input \in WorkUnits
    /\ output = NoOutput

NextAnalyze == analyze \/ detect
SpecAnalyze == InitAnalyze /\ [][NextAnalyze]_vars

\* ------------------------------------------------------------ temp cleanup
\* where one analysis of a file can fail: copy_file_to_temp, hash_file, or the
\* SELECT of check_blob_exists
AnalysisFaults == {"none", "copy", "hash", "blobs_query"}

\* where the execution of a plan can fail: shutil.move, or the hardlink fan-out
ExecutionFaults == {"none", "move", "link"}

\* analyze_inode reaches get_temp_path and copy_file_to_temp
writes_temp(row, s) == fs_type_of(row, s) = "f" /\ row.size # 0

\* the plan analyze_inode returns under a fault, AnalysisError when it raises it
plan_under(row, s, fault) == analyze_inode(row, s, fault \notin {"copy", "hash"})

\* analyze_inode raises: AnalysisError, or the database error of the SELECT
analysis_raises(row, s, fault) ==
    \/ plan_under(row, s, fault).action = "AnalysisError"
    \/ writes_temp(row, s) /\ fault = "blobs_query"

\* whether <ino>.tmp exists after analyze_inode, given whether it did before:
\* copy or hash failed -> unlinked in the except clause; the SELECT failed ->
\* left as written; blob known -> unlinked; blob new -> kept for the plan
temp_after_analysis(row, s, fault, before) ==
    IF ~writes_temp(row, s) THEN before
    ELSE IF plan_under(row, s, fault).action = "AnalysisError" THEN FALSE
    ELSE IF fault = "blobs_query" THEN TRUE
    ELSE plan_under(row, s, fault).action = "copy_new_file"

\* whether <ino>.tmp exists after process_inode_for_batch: its own analysis,
\* then skip, dry run or execution, then the finally clause, which unlinks
\* plan['temp_file_path'] when the analysis returned a plan that has one
temp_after_processing(row, s, fault, before) ==
    IF analysis_raises(row, s, fault)
    THEN temp_after_analysis(row, s, fault, before)
    ELSE IF plan_under(row, s, fault).action = "copy_new_file" THEN FALSE
    ELSE temp_after_analysis(row, s, fault, before)

\* how process_inode_for_batch ends
ending(row, s, fault, exec_fault) ==
    IF analysis_raises(row, s, fault) THEN "analysis failure"
    ELSE IF plan_under(row, s, fault).action = "skip" THEN "skipped"
    ELSE IF dry_run THEN "dry run"
    ELSE IF exec_fault # "none"
            /\ plan_under(row, s, fault).action
                  \in {"copy_new_file", "link_existing_file", "handle_empty_file"}
    THEN "execution failure"
    ELSE "plan executed"

\* an inode is claimed and its paths are read; no temp file of it exists
Claimed == [by |-> NULL, stage |-> "claimed", temp |-> FALSE, end |-> NULL]

\* process_batch, step 3: plan = self.analyze_inode(work_unit); an exception
\* ends the processing of the inode with an error dict
first_analysis ==
    /\ output.stage = "claimed"
    /\ \E fault \in AnalysisFaults :
         output' = [by |-> "analyze_inode",
                    stage |-> IF analysis_raises(input.row, input.s, fault)
                              THEN "ended" ELSE "analysed",
                    temp |-> temp_after_analysis(input.row, input.s, fault, output.temp),
                    end |-> IF analysis_raises(input.row, input.s, fault)
                            THEN "analysis failure" ELSE NULL]
    /\ UNCHANGED input
    /\ NoWorkerStep

\* process_batch, step 3: blob_id = self.process_inode_for_batch(work_unit)
second_analysis_and_execution ==
    /\ output.stage = "analysed"
    /\ \E fault \in AnalysisFaults, exec_fault \in ExecutionFaults :
         output' = [by |-> "process_inode_for_batch",
                    stage |-> "ended",
                    temp |-> temp_after_processing(input.row, input.s, fault, output.temp),
                    end |-> ending(input.row, input.s, fault, exec_fault)]
    /\ UNCHANGED input
    /\ NoWorkerStep

InitCleanup ==
    /\ source = MediumSource(<<"f", "f">>)
    /\ inode = [i \in Inodes |-> NewInodeRow("f", SizeOf(source[i]))]
    /\ path = [p \in Paths |-> NewPathRow(NULL)]
    /\ blobs \in {[h \in {} |-> 0], [h \in {hash_file("A")} |-> 1]}
    /\ by_hash = [h \in BlobIds |-> 0]
    /\ archive = [p \in Paths |-> 0]
    /\ next_ino = 1
    /\ placed_by = [h \in BlobIds |-> {}]
    /\ links_created = [h \in BlobIds |-> 0]
    /\ InitWorkers(Workers)
    /\ dry_run \in BOOLEAN
    /\ limit = 0
    /\ mount_table = {}
    /\ mount_calls = [w \in Workers |-> [m \in Media |-> NoCall]]
    /\ input \in {u \in WorkUnits : u.io_ok}
    /\ output = Claimed

NextCleanup == first_analysis \/ second_analysis_and_execution
SpecCleanup == InitCleanup /\ [][NextCleanup]_vars

\* ------------------------------------------------------------ diagnostics
\* failures of one inode that one worker lifetime is followed for
MaxFailures == 11

\* "At checkpoint (retry #10), run full diagnostic analysis"
CHECKPOINT == 10

\* the patterns diagnose_at_checkpoint looks for in str(exception).lower(); an
\* exception is the set of the patterns its message contains
ExcPatterns == {"beyond end of device", "i/o error", "no such file", "permission denied"}

\* _check_dmesg_simple: what the last 50 lines of the kernel log show
DmesgInfo == {NULL, "beyond_eof", "fat_error", "io_error"}

\* _check_mount_status
MountStatus == {"ok", "missing", "inaccessible"}

\* what a failure meets: the exception raised, the kernel log, the mount point
DiagInputs == [exception : SUBSET ExcPatterns, dmesg : DmesgInfo, mount : MountStatus]

\* the failures one worker lifetime is followed with: an I/O error or an
\* exception of no known pattern, with and without the kernel's confirmation
LifetimeInputs ==
    [exception : {{}, {"i/o error"}}, dmesg : {NULL, "io_error"}, mount : {"ok"}]

\* the inodes whose failures are followed: the first and the last of the medium
FailingInodes == {1, NInodes}

\* Check 1 of diagnose_at_checkpoint: the first pattern of the elif chain
detected(exception) ==
    IF "beyond end of device" \in exception THEN <<"detected_beyond_eof">>
    ELSE IF "i/o error" \in exception THEN <<"detected_io_error">>
    ELSE IF "no such file" \in exception THEN <<"detected_missing_file">>
    ELSE IF "permission denied" \in exception THEN <<"detected_permission_error">>
    ELSE <<>>

\* DiagnosticService.diagnose_at_checkpoint
diagnose_at_checkpoint(retry_count, exception, dmesg, mount) ==
    [retry_count |-> retry_count,
     checks_performed |->
        detected(exception)
        \o (IF dmesg # NULL THEN <<"dmesg:" \o dmesg>> ELSE <<>>)
        \o <<"mount_check:" \o mount>>]

NoFindings == [retry_count |-> 0, checks_performed |-> <<>>]

\* DiagnosticService.should_skip_permanently
should_skip_permanently(findings) ==
    LET checks == Range(findings.checks_performed)
    IN  \/ "detected_beyond_eof" \in checks \/ "dmesg:beyond_eof" \in checks
        \/ "detected_io_error" \in checks /\ "dmesg:io_error" \in checks

\* DiagnosticService.__init__ and the medium row: no failure is counted, no
\* checkpoint has run, medium.problems has no diagnostic event
NoDiagnostics ==
    [by |-> NULL,
     failed |-> [i \in FailingInodes |-> 0],
     retry_counts |-> [i \in FailingInodes |-> 0],
     checkpoints |-> [i \in FailingInodes |-> 0],
     findings |-> NoFindings,
     problems |-> <<>>,
     skip |-> FALSE]

\* process_batch, step 3, for a claimed inode i whose first analyze_inode
\* raises: track_failure, the checkpoint at retry_count == 10 (the findings are
\* logged), and the error dict that step 5 appends to inode.errors
fail_in_analysis(i) ==
    LET retry_count == output.retry_counts[i] + 1
        at_checkpoint == retry_count = CHECKPOINT
    IN  /\ output.failed[i] < MaxFailures
        /\ output' = [output EXCEPT
              !.by = "track_failure",
              !.failed[i] = @ + 1,
              !.retry_counts[i] = retry_count,
              !.checkpoints[i] = IF at_checkpoint THEN @ + 1 ELSE @,
              !.findings = IF at_checkpoint
                           THEN diagnose_at_checkpoint(retry_count, input.exception,
                                                       input.dmesg, input.mount)
                           ELSE @]
        /\ UNCHANGED input
        /\ NoWorkerStep

\* process_batch, step 3, for a claimed inode i whose analysis passes and whose
\* process_inode_for_batch fails: the exception is caught there, None comes
\* back, and step 5 appends 'UnknownError' to inode.errors
fail_in_execution(i) ==
    /\ output.failed[i] < MaxFailures
    /\ output' = [output EXCEPT !.by = "process_inode_for_batch", !.failed[i] = @ + 1]
    /\ UNCHANGED input
    /\ NoWorkerStep

\* diagnose_at_checkpoint on its own, for any exception and environment
diagnose ==
    /\ output.by = NULL
    /\ output' = [output EXCEPT
          !.by = "diagnose_at_checkpoint",
          !.findings = diagnose_at_checkpoint(CHECKPOINT, input.exception,
                                              input.dmesg, input.mount)]
    /\ UNCHANGED input
    /\ NoWorkerStep

\* should_skip_permanently applied to the findings of a checkpoint
skip_decision ==
    /\ output.by = "diagnose_at_checkpoint"
    /\ output' = [output EXCEPT !.by = "should_skip_permanently",
                                !.skip = should_skip_permanently(output.findings)]
    /\ UNCHANGED input
    /\ NoWorkerStep

InitDiagnostics(inputs) ==
    /\ InitMedium(<<"f", "f">>)
    /\ InitWorkers(Workers)
    /\ dry_run = FALSE
    /\ limit = 0
    /\ mount_table = {}
    /\ mount_calls = [w \in Workers |-> [m \in Media |-> NoCall]]
    /\ input \in inputs
    /\ output = NoDiagnostics

NextDiagnostics ==
    \/ \E i \in FailingInodes : fail_in_analysis(i)
    \/ \E i \in FailingInodes : fail_in_execution(i)

SpecDiagnostics == InitDiagnostics(LifetimeInputs) /\ [][NextDiagnostics]_vars

NextSkip == diagnose \/ skip_decision
SpecSkip == InitDiagnostics(DiagInputs) /\ [][NextSkip]_vars

\* ------------------------------------------------------------ steps
\* the step of worker w is the commit of its batch
CommitStep(w) ==
    /\ pc[w] = "batch"
    /\ pc'[w] \in {"loop", "done"}
    /\ consecutive_no_work'[w] = 0

\* the step of worker w ends its batch without a commit (rollback or kill)
AbortStep(w) ==
    /\ pc[w] = "batch"
    /\ \/ pc'[w] = "killed"
       \/ pc'[w] \in {"loop", "done"} /\ consecutive_no_work'[w] = consecutive_no_work[w] + 1

NoOpenBatch == \A w \in Workers : batch[w] = <<>>

\* ------------------------------------------------------------ C1
\* C1: claim exclusivity - in every reachable state no inode is in the open
\* batch (claimed, row-locked, being processed) of two different workers.
C1_ClaimExclusivity ==
    \A w \in Workers : \A v \in Workers \ {w} :
        Range(batch[w]) \cap Range(batch[v]) = {}

\* two workers hold open batches at the same time
C1_Witness ==
    \E w \in Workers : \E v \in Workers \ {w} :
        /\ pc[w] = "batch" /\ batch[w] # <<>>
        /\ pc[v] = "batch" /\ batch[v] # <<>>

\* ------------------------------------------------------------ C2
Released(old, new) ==
    /\ ~new.copied
    /\ new.claimed_by = NULL
    /\ new.claimed_at = NULL
    /\ Len(new.errors) = Len(old.errors) + 1
    /\ SubSeq(new.errors, 1, Len(old.errors)) = old.errors

\* C2: when a batch commits, every inode it claimed is either done
\* (copied = true) or released (copied = false, claim columns NULL) with exactly
\* one error entry appended; never both, never neither.
C2_CommitOutcome ==
    [][\A w \in Workers : CommitStep(w) =>
         \A i \in Range(batch[w]) :
            Len(inode[i].errors) < MaxErrors =>
                /\ inode'[i].copied \/ Released(inode[i], inode'[i])
                /\ inode'[i].copied => inode'[i].errors = inode[i].errors]_vars

\* a committed state with one inode done and another released with an error
C2_Witness ==
    /\ NoOpenBatch
    /\ \E i, j \in Inodes :
         /\ inode[i].copied /\ inode[i].blobid # NULL
         /\ ~inode[j].copied /\ inode[j].claimed_by = NULL /\ Len(inode[j].errors) = 1

\* ------------------------------------------------------------ C7
\* C7: a batch that ends without a commit (rollback after a database error or the
\* statement timeout, or the worker is killed) changes no row of inode, path or
\* blobs, and leaves every inode it had claimed unfinished, unclaimed and unlocked.
C7_UncommittedBatchLeavesNoTrace ==
    [][\A w \in Workers : AbortStep(w) =>
         /\ inode' = inode /\ path' = path /\ blobs' = blobs
         /\ \A i \in Range(batch[w]) :
              /\ ~inode'[i].copied
              /\ inode'[i].claimed_by = NULL
              /\ inode'[i].claimed_at = NULL
              /\ \A v \in Workers : i \notin Range(batch'[v])]_vars

\* a batch did filesystem work (an archive hardlink exists) and ended without a
\* commit: no batch is open and no inode is done or carries an error
C7_Witness ==
    /\ NoOpenBatch
    /\ faults > 0
    /\ \E p \in Paths : archive[p] > 0
    /\ \A i \in Inodes : ~inode[i].copied /\ inode[i].errors = <<>>

\* ------------------------------------------------------------ C3
\* C3: hardlink correctness - for every inode with copied = true and blob_id = h
\* the by-hash file of h exists and every path of the inode with exclude_reason
\* NULL has an archive entry that is the by-hash file's current inode.
C3_HardlinkCorrectness ==
    \A i \in Inodes :
        (inode[i].copied /\ inode[i].blobid # NULL) =>
            /\ by_hash[inode[i].blobid] # 0
            /\ \A p \in paths_of(i) : archive[p] = by_hash[inode[i].blobid]

\* ------------------------------------------------------------ C4
\* C4: by-hash creation uniqueness - for every blob_id at most one inode row has
\* by_hash_created = true, such a row is one whose rename placed the by-hash
\* file, and when one inode's rename placed the file and that inode is committed
\* as done, its row records by_hash_created = true.
C4_ByHashCreationUniqueness ==
    \A h \in BlobIds :
        LET marked == {i \in Inodes : inode[i].blobid = h /\ inode[i].by_hash_created}
        IN  /\ Cardinality(marked) <= 1
            /\ marked \subseteq placed_by[h]
            /\ \A i \in Inodes :
                 (inode[i].copied /\ inode[i].blobid = h /\ placed_by[h] = {i})
                     => i \in marked

\* ------------------------------------------------------------ C5
n_hardlinks(h) == IF h \in DOMAIN blobs THEN blobs[h] ELSE 0

\* C5: in every committed state of a run without faults, blobs.n_hardlinks of a
\* blob equals the number of archive hardlinks the workers created for it.
C5_HardlinkCounter ==
    (NoOpenBatch /\ faults = 0) =>
        \A h \in BlobIds : n_hardlinks(h) = links_created[h]

\* ------------------------------------------------------------ C6
\* the filesystem work of inode i is in place: it is a regular file whose by-hash
\* file exists and every one of its paths is hardlinked to it
FsWorkDone(i) ==
    /\ source[i].kind = "f"
    /\ paths_of(i) # {}
    /\ by_hash[hash_file(source[i].content)] # 0
    /\ \A p \in paths_of(i) : archive[p] = by_hash[hash_file(source[i].content)]

\* C6: idempotence - processing an inode again whose filesystem work is already
\* in place (its earlier batch was not committed) creates no archive hardlink and
\* adds to blobs.n_hardlinks no more than the number of hardlinks it created.
C6_ReprocessingIdempotent ==
    [][\A w \in Workers :
         (/\ pc[w] = "batch"
          /\ pos[w] <= Len(batch[w])
          /\ pos'[w] = pos[w] + 1
          /\ FsWorkDone(batch[w][pos[w]])) =>
             /\ links_created' = links_created
             /\ \A h \in BlobIds :
                  n_hardlinks(h)' - n_hardlinks(h) <= links_created'[h] - links_created[h]]_vars

\* ------------------------------------------------------------ C8
\* C8: every committed inode row whose processing succeeded (copied = true with a
\* blob_id) has processed_at set and the claim cleared.
C8_SuccessRowComplete ==
    \A i \in Inodes :
        (inode[i].copied /\ inode[i].blobid # NULL) =>
            /\ inode[i].processed_at # NULL
            /\ inode[i].claimed_by = NULL
            /\ inode[i].claimed_at = NULL

\* ------------------------------------------------------------ C9
\* C9: in every committed state claimed_by is non-NULL iff claimed_at is non-NULL.
C9_ClaimColumnsAgree ==
    \A i \in Inodes : (inode[i].claimed_by # NULL) <=> (inode[i].claimed_at # NULL)

\* ------------------------------------------------------------ C10
synthetic_mime(plan_action, fs_type) ==
    CASE plan_action = "create_directory" -> "inode/directory"
      [] plan_action = "create_symlink" -> "inode/symlink"
      [] fs_type = "b" -> "inode/blockdevice"
      [] fs_type = "c" -> "inode/chardevice"
      [] fs_type = "p" -> "inode/fifo"
      [] OTHER -> "inode/socket"

\* C10: when a batch commits, every inode of it whose plan was create_directory,
\* create_symlink or record_special and whose filesystem step succeeded is
\* committed with copied = true and the synthetic mime type of its kind, and no
\* blobs row is created.
C10_NonFileKindsCommitted ==
    [][\A w \in Workers : CommitStep(w) =>
         \A i \in DOMAIN executed[w] :
            executed[w][i] \in {"create_directory", "create_symlink", "record_special"} =>
                /\ inode'[i].copied
                /\ inode'[i].mime_type = synthetic_mime(executed[w][i], inode[i].fs_type)
                /\ blobs' = blobs]_vars

\* ------------------------------------------------------------ steps (continued)
\* the step of worker w processes the inode at pos[w] of its batch
InodeStep(w) ==
    /\ pc[w] = "batch"
    /\ pos[w] <= Len(batch[w])
    /\ pos'[w] = pos[w] + 1

\* the step of worker w is a claim that returned rows
ClaimStep(w) ==
    /\ pc[w] = "loop"
    /\ pc'[w] = "batch"

Exited(w) == pc[w] \in {"off", "done", "failed", "killed"}

\* ------------------------------------------------------------ C11
\* C11: deduplication decision - when a regular, non-empty file inode is
\* processed and another inode with the same content digest is already committed
\* as done, the plan that is executed is link_existing_file; copy_new_file is
\* executed only for a digest no committed inode has produced.
C11_DedupDecision ==
    [][\A w \in Workers : InodeStep(w) =>
         LET i == batch[w][pos[w]]
             h == hash_file(source[i].content)
         IN  (/\ i \in DOMAIN executed'[w]
              /\ executed'[w][i] \in {"copy_new_file", "link_existing_file"}
              /\ \E j \in Inodes \ {i} : inode[j].copied /\ inode[j].blobid = h)
                 => executed'[w][i] = "link_existing_file"]_vars

\* ------------------------------------------------------------ C12
\* C12: termination on drain - in every behaviour with one worker, limit 0, no
\* dry run and no shutdown signal the worker eventually leaves its loop.
C12_TerminatesOnDrain ==
    <>(\/ limit > 0
       \/ dry_run
       \/ \A w \in Workers : Exited(w) \/ shutdown[w])

\* ------------------------------------------------------------ C13
\* C13: with --limit N > 0 the number of inodes one run completes never exceeds N.
C13_LimitRespected ==
    \A w \in Workers : limit > 0 => processed_count[w] <= limit

\* ------------------------------------------------------------ C14
\* C14: a run with --dry-run changes no by-hash file, no archive entry and no
\* committed row of inode, path or blobs.
C14_DryRunChangesNothing ==
    [][dry_run =>
         /\ inode' = inode /\ path' = path /\ blobs' = blobs
         /\ by_hash' = by_hash /\ archive' = archive]_vars

\* ------------------------------------------------------------ C15
\* C15: startup sweep - a worker makes no claim before its sweep; the sweep marks
\* every unclaimed, unfinished inode with at least 5 recorded errors as terminal
\* (copied = true, claimed_by = 'MAX_RETRIES_EXCEEDED'); and no claim ever
\* returns an inode that carries the mark.
C15_StartupSweep ==
    [][\A w \in Workers :
         /\ pc[w] \in {"start", "sweep"} => batch'[w] = <<>>
         /\ (pc[w] = "sweep" /\ pc'[w] = "loop") =>
                \A i \in Inodes :
                    (/\ ~inode[i].copied
                     /\ inode[i].claimed_by = NULL
                     /\ Len(inode[i].errors) >= MAX_RETRIES) =>
                        /\ inode'[i].copied
                        /\ inode'[i].claimed_by = MAX_RETRIES_EXCEEDED
         /\ ClaimStep(w) =>
                \A i \in Range(batch'[w]) :
                    inode[i].claimed_by # MAX_RETRIES_EXCEEDED]_vars

\* a restarted worker has swept an inode and then claimed a batch, while the
\* other workers have not started
C15_Witness ==
    \E w \in Workers :
        /\ pc[w] = "batch"
        /\ \A v \in Workers \ {w} : pc[v] = "start"
        /\ \E i \in Inodes : inode[i].claimed_by = MAX_RETRIES_EXCEEDED

\* ------------------------------------------------------------ C16
\* claimed_by of an excluded inode: 'EXCLUDED' or 'EXCLUDED: <reason>'
IsExcluded(claimed_by) ==
    claimed_by \in {"EXCLUDED", "EXCLUDED: all_paths_excluded",
                    "EXCLUDED: persistent_failure"}

\* C16: persistent-failure promotion - every committed inode row whose last three
\* error entries are the same string is terminal: copied = true with a
\* claimed_by that starts with 'EXCLUDED'.
C16_PersistentFailurePromoted ==
    \A i \in Inodes :
        LET e == inode[i].errors
            n == Len(e)
        IN  (n >= 3 /\ e[n] = e[n - 1] /\ e[n - 1] = e[n - 2]) =>
                /\ inode[i].copied
                /\ IsExcluded(inode[i].claimed_by)

\* ------------------------------------------------------------ C17
\* C17: missing source path - when a batch commits in which the processing of an
\* inode failed because its source path does not exist, a path row of the inode
\* gets exclude_reason = 'file_not_found'; if no path of the inode is left, the
\* inode is committed copied = true, claimed_by = 'EXCLUDED: all_paths_excluded'.
C17_MissingPathExcluded ==
    [][\A w \in Workers : CommitStep(w) =>
         \A i \in Range(batch[w]) :
            (source[i].kind = "none" /\ paths_of(i) # {}) =>
                /\ \E p \in paths_of(i) : path'[p].exclude_reason = "file_not_found"
                /\ (\A p \in Paths : PathIno(p) = i => path'[p].exclude_reason # NULL)
                      => /\ inode'[i].copied
                         /\ inode'[i].claimed_by = "EXCLUDED: all_paths_excluded"]_vars

\* ------------------------------------------------------------ C18
\* C18: empty-file short-circuit - when a batch commits in which an inode was
\* handled as an empty file, the by-hash file of the empty digest exists, every
\* path of the inode is hardlinked to it, and the inode is committed with
\* copied = true, blob_id = the empty digest, mime_type = 'application/x-empty'.
C18_EmptyFileCommitted ==
    [][\A w \in Workers : CommitStep(w) =>
         \A i \in DOMAIN executed[w] :
            executed[w][i] = "handle_empty_file" =>
                /\ by_hash[EMPTY_FILE_HASH] # 0
                /\ \A p \in paths_of(i) : archive[p] = by_hash[EMPTY_FILE_HASH]
                /\ inode'[i].copied
                /\ inode'[i].blobid = EMPTY_FILE_HASH
                /\ inode'[i].mime_type = "application/x-empty"]_vars

\* ------------------------------------------------------------ C19
\* C19: after a database error aborts a batch (rollback) the worker does not
\* exit; it returns to its loop for the next batch.
C19_ContinuesAfterAbort ==
    [][\A w \in Workers :
         (AbortStep(w) /\ pc'[w] # "killed") => pc'[w] = "loop"]_vars

C21_CodecRoundTrip ==
    output # NoOutput => fsencode(output.path) = input

\* ------------------------------------------------------------ C22
\* C22: ensure_medium_mounted is cached per worker - once a call of a worker
\* for a medium has returned, every later call of that worker for that medium
\* returns the same mount path and runs no findmnt, no query and no mount
\* helper; the helper runs at most once per medium and worker.
C22_MountCached ==
    /\ [][\A w \in Workers, m \in Media :
            (/\ mount_calls[w][m].ok > 0
             /\ mount_calls'[w][m].calls = mount_calls[w][m].calls + 1)
            => /\ mount_calls'[w][m].ret = mount_calls[w][m].ret
               /\ mount_calls'[w][m].ret = mount_point(m)
               /\ mount_calls'[w][m].findmnt = mount_calls[w][m].findmnt
               /\ mount_calls'[w][m].query = mount_calls[w][m].query
               /\ mount_calls'[w][m].helper = mount_calls[w][m].helper]_vars
    /\ [](\A w \in Workers, m \in Media : mount_calls[w][m].helper <= 1)

\* a worker has called twice for a medium that its first call mounted by the
\* helper
C22_Witness ==
    \E w \in Workers, m \in Media :
        /\ mount_calls[w][m].ok >= 2
        /\ mount_calls[w][m].helper = 1

\* ------------------------------------------------------------ C23
\* C23: a mount failure at startup is fatal - a worker whose
\* ensure_medium_mounted raised in run() runs no startup sweep, claims no
\* inode, changes no row and ends with the error: only a worker whose medium
\* is mounted gets past the mount step, the failing step leaves tables and
\* filesystem as they are, and a failed worker holds no batch and takes no
\* further step.
C23_MountFailureFatal ==
    /\ [](\A w \in Workers :
            /\ pc[w] \in {"sweep", "loop", "batch", "done"}
                  => medium_hash \in mounted_media[w]
            /\ pc[w] = "failed"
                  => batch[w] = <<>> /\ medium_hash \notin mounted_media[w])
    /\ [][\A w \in Workers :
            /\ pc[w] = "failed" => pc'[w] = "failed"
            /\ (pc[w] # "failed" /\ pc'[w] = "failed")
                  => /\ pc[w] = "start"
                     /\ UNCHANGED <<db, fs, batch>>]_vars

\* a worker has failed to mount while another worker has committed a batch
C23_Witness ==
    \E w \in Workers :
        /\ pc[w] = "failed"
        /\ \E i \in Inodes : inode[i].copied

\* ------------------------------------------------------------ C24
\* C24: classify_error gives every exception exactly one of the five classes:
\* a missing file, ENOENT or a name too long is a path_error; EIO, an
\* 'Input/output error' or an access beyond the end of the device or beyond
\* EOF is an io_error; a PermissionError or EACCES is a permission_error; a
\* failed hash computation is a hash_error; anything else is unknown.  (An
\* exception that shows the marks of several classes gets one of them.)
C24_Marks(exc) ==
    {c \in ErrorClasses :
        \/ /\ c = "path_error"
           /\ \/ exc.type = "FileNotFoundError"
              \/ exc.errno = ENOENT
              \/ exc.errno = ENAMETOOLONG
              \/ exc.msg = "No such file or directory"
              \/ exc.msg = "File name too long"
        \/ /\ c = "io_error"
           /\ \/ exc.errno = EIO
              \/ exc.msg = "Input/output error"
              \/ exc.msg = "attempt to access beyond end of device"
              \/ exc.msg = "request beyond EOF"
        \/ /\ c = "permission_error"
           /\ (exc.type = "PermissionError" \/ exc.errno = EACCES)
        \/ /\ c = "hash_error"
           /\ exc.msg = "BLAKE3 hash computation failed"}

C24_Classification ==
    output.by = "classify_error" =>
        /\ output.result \in ErrorClasses
        /\ C24_Marks(input) = {} => output.result = "unknown"
        /\ C24_Marks(input) # {} => output.result \in C24_Marks(input)

\* a FAT 'request beyond EOF' OSError has been classified
C24_Witness ==
    /\ output.by = "classify_error"
    /\ input.type = "OSError"
    /\ input.msg = "request beyond EOF"
    /\ output.result = "io_error"

\* ------------------------------------------------------------ C25
\* C25: determine_failure_status returns (status, error_type): the status is
\* 'failed_permanent' exactly when the exception is an io_error and
\* 'failed_retryable' for every other class; error_type is the class.
C25_FailureStatus ==
    output.by = "determine_failure_status" =>
        /\ output.result[2] \in ErrorClasses
        /\ C24_Marks(input) = {} => output.result[2] = "unknown"
        /\ C24_Marks(input) # {} => output.result[2] \in C24_Marks(input)
        /\ output.result[1] =
              (IF output.result[2] = "io_error" THEN "failed_permanent"
                                               ELSE "failed_retryable")

\* a PermissionError has been given its failure status
C25_Witness ==
    /\ output.by = "determine_failure_status"
    /\ input.type = "PermissionError"
    /\ output.result[2] = "permission_error"

\* ------------------------------------------------------------ C26
\* C26: counter monotonicity - no step of a copy worker lowers the n_hardlinks
\* of a blob, and no step deletes a blobs row.
C26_CounterMonotone ==
    [][\A h \in DOMAIN blobs :
          /\ h \in DOMAIN blobs'
          /\ blobs'[h] >= blobs[h]]_vars

\* a blobs row has been upserted twice
C26_Witness ==
    \E h \in DOMAIN blobs :
        \E i \in Inodes :
            /\ inode[i].blobid = h
            /\ blobs[h] > Cardinality({p \in Paths : PathIno(p) = i})

\* ------------------------------------------------------------ C27
\* C27: temp-file ownership - no two workers that are at work use the same temp
\* file path, whether they work on one medium or on different media, and
\* whether the file goes to the per-worker RAM scratch or to the shared NVMe
\* scratch.
C27_TempFileOwnership ==
    \A w \in Workers, v \in Workers :
        (w # v /\ temp_file_path[w] # NoTemp /\ temp_file_path[v] # NoTemp)
            => <<temp_file_path[w].dir, temp_file_path[w].name>>
                  # <<temp_file_path[v].dir, temp_file_path[v].name>>

\* ------------------------------------------------------------ C28
\* C28: rename race - when a worker runs execute_copy_new_file_fs for a blob
\* whose by-hash file already exists, the by-hash file stays the file it was
\* and the call returns by_hash_created = false; it returns true only when no
\* by-hash file existed.
C28_RenameRace ==
    [][\A w \in Workers : InodeStep(w) =>
         \A h \in BlobIds :
            by_hash[h] # 0 => /\ by_hash'[h] = by_hash[h]
                              /\ placed_by'[h] = placed_by[h]]_vars

C30_LeafDirectories ==
    output.by = "filter_longest_paths" =>
        /\ output.result =
              {p \in Range(input) :
                  ~\E q \in Range(input) : startswith(q, p \o <<"/">>)}
        /\ \A p \in Range(input) :
              \/ p \in output.result
              \/ \E q \in output.result : startswith(q, p \o <<"/">>)

\* the directories 'a', 'a-b' and 'a/b' have been filtered
C30_Witness ==
    /\ output.by = "filter_longest_paths"
    /\ Range(input) = {<<"a">>, <<"a", "-", "a">>, <<"a", "/", "a">>}
    /\ output.result = {<<"a", "-", "a">>, <<"a", "/", "a">>}

\* ------------------------------------------------------------ C31
\* the kind of the inode: the fs_type of the row when the row has one, else
\* what is at the first path ("l" for a symlink, NULL for nothing or for an
\* object of no known type)
C31_Kind ==
    IF input.row.fs_type # NULL THEN input.row.fs_type
    ELSE IF input.s.kind = "l" THEN "l"
    ELSE IF input.s.kind \in {"none", "other"} THEN NULL
    ELSE input.s.kind

\* C31: analyze_inode returns a plan with one action that the kind of the inode
\* determines: directory - create_directory, symlink - create_symlink, device,
\* fifo or socket - record_special, file of size 0 - handle_empty_file, file
\* with a digest that blobs has - link_existing_file, file with another digest -
\* copy_new_file, no or unknown kind - skip.  The fs_type of the row decides
\* when the row has one; the path decides only when it has none.  (When the
\* source cannot be read the analysis of a file or symlink raises instead.)
C31_PlanByKind ==
    output.by = "analyze_inode" =>
        LET a == output.plan.action
            expected ==
                CASE C31_Kind = "d" -> "create_directory"
                  [] C31_Kind = "l" -> "create_symlink"
                  [] C31_Kind \in {"b", "c", "p", "s"} -> "record_special"
                  [] C31_Kind = "f" /\ input.row.size = 0 -> "handle_empty_file"
                  [] C31_Kind = "f" /\ input.row.size # 0
                        /\ hash_file(input.s.content) \in DOMAIN blobs
                        -> "link_existing_file"
                  [] C31_Kind = "f" /\ input.row.size # 0
                        /\ hash_file(input.s.content) \notin DOMAIN blobs
                        -> "copy_new_file"
                  [] OTHER -> "skip"
        IN  IF a = "AnalysisError"
            THEN C31_Kind \in {"f", "l"} /\ expected # "handle_empty_file"
            ELSE a = expected

\* a row that says directory was analysed while a symlink is at its path
C31_Witness ==
    /\ output.by = "analyze_inode"
    /\ input.row.fs_type = "d"
    /\ input.s.kind = "l"
    /\ output.plan.action = "create_directory"

\* ------------------------------------------------------------ C32
\* C32: detect_fs_type tests for a symlink before it tests existence - a
\* symlink is 'l' whether its target exists or not, and a path that is no
\* symlink and does not exist gives None.
C32_SymlinkBeforeExistence ==
    output.by = "detect_fs_type" =>
        /\ input.s.kind = "l" => output.fs_type = "l"
        /\ (input.s.kind # "l" /\ input.s.target = "none") => output.fs_type = NULL

\* a symlink without target has been classified
C32_Witness ==
    /\ output.by = "detect_fs_type"
    /\ input.s.kind = "l"
    /\ input.s.target = "none"
    /\ output.fs_type = "l"

\* ------------------------------------------------------------ C33
\* the step of worker w is a claim attempt that returned no rows
EmptyClaimStep(w) ==
    /\ pc[w] = "loop"
    /\ consecutive_no_work'[w] = consecutive_no_work[w] + 1

\* row i can be claimed by worker w: unfinished, unclaimed and not row-locked by
\* the open transaction of another worker
Claimable(w, i) ==
    /\ ~inode[i].copied
    /\ inode[i].claimed_by = NULL
    /\ ~LockedByOther(w, i)

C34_ExcludedPathsUntouched ==
    [][\A p \in Paths :
         path[p].exclude_reason # NULL =>
            /\ path'[p].blobid = path[p].blobid
            /\ archive'[p] = archive[p]]_vars

\* ------------------------------------------------------------ C35
\* C35: checkpoint diagnostic - every failed attempt on an inode raises the
\* worker's failure counter of that inode by exactly one; the checkpoint
\* diagnostic runs at the step that takes the counter to 10 and at no other
\* step; and the findings of that run are recorded in medium.problems.
C35_CheckpointDiagnostic ==
    [][\A i \in FailingInodes :
         output'.failed[i] = output.failed[i] + 1 =>
            /\ output'.retry_counts[i] = output.retry_counts[i] + 1
            /\ output'.checkpoints[i] = output.checkpoints[i] + 1
                  <=> output'.retry_counts[i] = CHECKPOINT
            /\ output'.retry_counts[i] = CHECKPOINT =>
                  \E k \in DOMAIN output'.problems :
                      output'.problems[k] = output'.findings]_vars

\* ------------------------------------------------------------ C36
\* C36: should_skip_permanently answers true only for findings whose
\* checks_performed hold a detection from the exception message together with
\* the kernel-log confirmation of the same error.
C36_SkipNeedsBothConfirmations ==
    (output.by = "should_skip_permanently" /\ output.skip) =>
        LET checks == Range(output.findings.checks_performed)
        IN  \/ "detected_beyond_eof" \in checks /\ "dmesg:beyond_eof" \in checks
            \/ "detected_io_error" \in checks /\ "dmesg:io_error" \in checks

\* ------------------------------------------------------------ C37
\* C37: temp-file cleanup - when the processing of an inode has ended (plan
\* executed, skipped, dry run, analysis failure or execution failure) no temp
\* file of that inode exists.
C37_TempFileCleanup == output.stage = "ended" => ~output.temp

\* ------------------------------------------------------------ C38
\* C38: terminal states are absorbing - a step never takes an inode with
\* copied = true back to copied = false, never changes its blob_id or its
\* claimed_by (done, EXCLUDED or MAX_RETRIES_EXCEEDED), and never puts it into a
\* worker's batch; and a step changes the errors list of an inode only by
\* appending to it.
C38_TerminalAbsorbing ==
    [][\A i \in Inodes :
         /\ inode[i].copied =>
              /\ inode'[i].copied
              /\ inode'[i].blobid = inode[i].blobid
              /\ inode'[i].claimed_by = inode[i].claimed_by
              /\ \A w \in Workers : i \notin Range(batch'[w])
         /\ startswith(inode'[i].errors, inode[i].errors)]_vars

\* one inode is done with a blob_id while a worker has claimed another inode,
\* one that failed before, in a later batch
C38_Witness ==
    \E i \in Inodes : \E j \in Inodes \ {i} : \E w \in Workers :
        /\ inode[i].copied /\ inode[i].blobid # NULL
        /\ j \in Range(batch[w])
        /\ i \notin Range(batch[w])
        /\ Len(inode[j].errors) >= 1

\* ------------------------------------------------------------ C39
\* C39: the archive path mapping is injective and consistent - the archive
\* name an executor gives a stored path is the name of no other stored path
\* under that executor, and the hardlink fan-out and the directory and symlink
\* creation give a stored path the same archive name.
C39_ArchivePathMapping ==
    /\ output.by = "create_hardlinks_idempotent" =>
          /\ \A q \in StoredPaths \ {input} : sanitized_paths(q) # output.path
          /\ archive_path_str(input) = output.path
    /\ output.by = "execute_directory_fs" =>
          /\ \A q \in StoredPaths \ {input} : archive_path_str(q) # output.path
          /\ sanitized_paths(input) = output.path

\* ------------------------------------------------------------ C40
\* C40: hash identity of the empty file - the blob_id that analysis gives a
\* zero-byte file through hash_file (the row's size is not 0, the file read is
\* empty) is the constant blob_id of the size-0 short-circuit.
C40_EmptyFileHashIdentity ==
    (/\ output.by = "analyze_inode"
     /\ input.s.content = ""
     /\ output.plan.action \in {"copy_new_file", "link_existing_file"})
        => output.plan.blobid = EMPTY_FILE_HASH

====
